---- MODULE Spec2Model ----
(***************************************************************************)
(* doctor: the request pipeline of doctor/flask.py (handle_http_v3, the    *)
(* type-annotation mode, and handle_http, the schema mode) and the route   *)
(* synthesis of doctor/routing.py (HTTPMethod, Route, create_routes).      *)
(***************************************************************************)
EXTENDS Integers, Sequences, FiniteSets, TLC

(***************************************************************************)
(* Python values.  A value is a record: its Python type and its text as a  *)
(* sequence of characters.                                                 *)
(***************************************************************************)
Str(s) == [py |-> "str", v |-> s]
PyNone == [py |-> "NoneType", v |-> <<>>]
PyInt(s) == [py |-> "int", v |-> s]

\* The mappings with keys among K, each key k with a value of V(k) (Python dicts).
Mappings(K, V) == UNION {{m \in [D -> UNION {V[k] : k \in D}] : \A k \in D : m[k] \in V[k]} : D \in SUBSET K}
EmptyDict == [k \in {} |-> PyNone]

\* The entries a client may put in a request: name (empty or not), age and a name
\* that no logic function has.
RequestKeys == {"name", "age", "junk"}
RequestValues(k) == IF k = "name" THEN {Str(<<>>), Str(<<"7">>)} ELSE {Str(<<"7">>)}
RequestData == Mappings(RequestKeys, [k \in RequestKeys |-> RequestValues(k)])

\* The keyword arguments the router captures from the path: at most one.
RouterKeys == {"name", "foo_id"}
RouterValues(k) == {Str(<<"9">>)}
RouterKwargs == {m \in Mappings(RouterKeys, [k \in RouterKeys |-> RouterValues(k)]) : Cardinality(DOMAIN m) <= 1}

(***************************************************************************)
(* The types of test_routing.py: Name = string(min_length=1),              *)
(* Age = integer(1..120), IsAlive = boolean, FooId = integer, Foo = string *)
(***************************************************************************)
ValidatingTypes == {"Name", "Age", "IsAlive", "FooId", "Foo"}
StringTypes == {"Name", "Foo"}
IntegerTypes == {"Age", "FooId"}
Digits == {"1", "7", "9"}

\* Does calling the type on the value succeed (no TypeSystemError)?
TypeAccepts(type, value) ==
    CASE type = "Name" -> value.py \in {"str"} \cup StringTypes /\ Len(value.v) >= 1
      [] type = "Foo" -> value.py \in {"str"} \cup StringTypes
      [] type \in IntegerTypes ->
            /\ value.py \in {"str", "int"} \cup IntegerTypes
            /\ Len(value.v) \in 1..3
            /\ \A i \in 1..Len(value.v) : value.v[i] \in Digits
      [] type = "IsAlive" -> value.py = "str" /\ value.v \in {<<"1">>, <<"0">>}
      [] OTHER -> FALSE

\* annotation(value): an instance of the annotated type holding the value.
Coerce(type, value) == [py |-> type, v |-> value.v]

(***************************************************************************)
(* The logic functions of test_routing.py and their signatures.            *)
(***************************************************************************)
Param(n, a, d) == [name |-> n, annotation |-> a, has_default |-> d]

Logics == {"get_foo", "create_foo", "delete_foo"}

Signature(f) ==
    CASE f = "get_foo" ->
            [parameters |-> <<Param("name", "Name", FALSE), Param("age", "Age", FALSE),
                              Param("is_alive", "IsAlive", TRUE)>>,
             return_annotation |-> "Foo"]
      [] f = "create_foo" ->
            [parameters |-> <<Param("name", "Name", FALSE)>>, return_annotation |-> "Foo"]
      [] f = "delete_foo" ->
            [parameters |-> <<Param("foo_id", "FooId", FALSE)>>, return_annotation |-> "empty"]

Names(ps) == [i \in 1..Len(ps) |-> ps[i].name]
Range(s) == {s[i] : i \in 1..Len(s)}
Range2(m) == {m[k] : k \in DOMAIN m}

\* A resolution that takes every parameter without a default for required.
GetParamsFromFunc_AnyType(sig) ==
    [all |-> Names(sig.parameters),
     required |-> Names(SelectSeq(sig.parameters, LAMBDA p : ~p.has_default)),
     optional |-> Names(SelectSeq(sig.parameters, LAMBDA p : p.has_default)),
     logic |-> Names(sig.parameters)]

\* doctor.utils.get_params_from_func: the ParameterSet of a signature.
GetParamsFromFunc(sig) ==
    [all |-> Names(sig.parameters),
     required |-> Names(SelectSeq(sig.parameters,
                     LAMBDA p : ~p.has_default /\ p.annotation \in ValidatingTypes)),
     optional |-> Names(SelectSeq(sig.parameters, LAMBDA p : p.has_default)),
     logic |-> Names(sig.parameters)]

\* sig.parameters[name].annotation
Annotation(sig, name) ==
    LET i == CHOOSE i \in 1..Len(sig.parameters) : sig.parameters[i].name = name
    IN sig.parameters[i].annotation

(***************************************************************************)
(* Exceptions.  kind: the class; errors: the `errors` attribute ("absent"  *)
(* when the exception has none); about: the message; description, errobj:  *)
(* what a SchematicHTTPException is constructed with.                      *)
(***************************************************************************)
Exc(kind, errors, about) ==
    [kind |-> kind, errors |-> errors, about |-> about, description |-> <<>>, errobj |-> "unset"]

HTTPException(kind, e, errobj) ==
    [kind |-> kind, errors |-> "absent", about |-> "", description |-> <<e>>, errobj |-> errobj]

\* An HTTP exception described by a fixed message instead of an exception.
HTTPMessage(kind, msg) ==
    [kind |-> kind, errors |-> "absent", about |-> msg, description |-> <<>>, errobj |-> "None"]

UncaughtMessage == "Uncaught error in logic function"

\* The classes flask.py imports from doctor.errors (siblings of one another).
DoctorErrors == {"InvalidValueError", "TypeSystemError", "ParseError", "SchemaValidationError",
                 "UnauthorizedError", "ForbiddenError", "NotFoundError", "ImmutableError"}
\* Exceptions of other classes a logic function may raise.
OtherErrors == {"ValueError", "KeyError"}

\* isinstance(e, cls): every class here derives directly from Exception.
IsInstance(e, cls) == cls = e.kind \/ cls = "Exception"

\* getattr(e, 'errors', None)
GetErrors(e) == IF e.errors = "absent" THEN "None" ELSE e.errors

\* allowed_exceptions: None or a list of classes.
NoneList == [none |-> TRUE, classes |-> {}]
ListOf(S) == [none |-> FALSE, classes |-> S]
Truthy(allowed) == ~allowed.none /\ allowed.classes # {}


(***************************************************************************)
(* State.                                                                  *)
(***************************************************************************)
VARIABLES
    debug,       \* current_app.config['DEBUG']
    environ,     \* os.environ['RAISE_RESPONSE_VALIDATION_ERRORS']: "unset" or its text
    schema,      \* the ResourceSchema handle_http is given (schema mode)
    request,     \* flask.request
    call,        \* the arguments of the dispatch in progress
    pc,          \* the position of the dispatch in its pipeline
    params,      \* the local variable params
    response,    \* the local variable response
    raised,      \* the exception in flight inside the try block, if any
    invoked,     \* the calls of the logic function: the keyword arguments of each
    log,         \* the records written to logging
    result,      \* what the dispatch returned or raised
    logic_attrs,     \* the _doctor_* attributes set on each logic function
    declared,        \* the arguments of every HTTPMethod(...) so far, by object
    methods,         \* the HTTPMethod objects made for the route being written
    routes,          \* the Route objects, in order
    created_routes,  \* what create_routes returned
    rpc,             \* "declaring" until create_routes has run
    hcall,           \* the last call of a handler callable and its outcome
    binder,          \* per thread: the position and locals of its HTTPMethod.__init__
    computed,        \* every evaluation of inspect.signature / get_params_from_func
    func,            \* the function get_params_from_func is given
    resolved,        \* what get_params_from_func returned, once it has
    heap,            \* the function objects get_annotation can reach
    arg,             \* the function get_annotation was called with
    fn,              \* the local variable fn of get_annotation
    closure,         \* the local variable closure of get_annotation
    apc,             \* the position of get_annotation in its loop
    annotation       \* what get_annotation returned or raised

dispatchVars == <<debug, environ, schema, request, call, pc, params, response, raised,
                  invoked, log, result>>
routingVars == <<logic_attrs, declared, methods, routes, created_routes, rpc, hcall>>
bindingVars == <<binder, computed>>
resolveVars == <<func, resolved>>
annotationVars == <<heap, arg, fn, closure, apc, annotation>>
inspectVars == <<bindingVars, resolveVars, annotationVars>>

\* constants.py
HTTP_METHODS_WITH_JSON_BODY == {"POST", "PUT", "PATCH"}
MAX_RESPONSE_LENGTH == 3
STATUS_CODE_MAP == [m \in {"POST", "DELETE"} |-> IF m = "POST" THEN 201 ELSE 204]

Methods == {"GET", "POST", "PUT", "DELETE"}
Mimetypes == {"application/json", "application/x-www-form-urlencoded"}

\* A status map without its DELETE entry.
StatusFor_PostOnly(method) == IF method = "POST" THEN 201 ELSE 200

\* STATUS_CODE_MAP.get(request.method, 200)
StatusFor(method) == IF method \in DOMAIN STATUS_CODE_MAP THEN STATUS_CODE_MAP[method] ELSE 200

NoSchema == [exists |-> FALSE, raise_response_validation_errors |-> FALSE]
NoRequest == [method |-> "GET", mimetype |-> "application/json", is_object |-> TRUE,
              data |-> EmptyDict]
NoCall == [mode |-> "none", logic |-> "get_foo", kwargs |-> EmptyDict,
           allowed_exceptions |-> NoneList, request_schema |-> FALSE,
           request_validator |-> FALSE, response_validator |-> FALSE]
\* response before the logic function has returned
NoResponse == [is_response |-> FALSE, content |-> [py |-> "unbound", v |-> <<>>], headers |-> "none"]
NoResult == [type |-> "pending", body |-> PyNone, status |-> 0, headers |-> "none",
             arity |-> 0, exc |-> <<>>]

Returned(body, status) ==
    [type |-> "return", body |-> body, status |-> status, headers |-> "none", arity |-> 2,
     exc |-> <<>>]
ReturnedWithHeaders(body, status, headers) ==
    [type |-> "return", body |-> body, status |-> status, headers |-> headers, arity |-> 3,
     exc |-> <<>>]
Raised(e) ==
    [type |-> "raise", body |-> PyNone, status |-> 0, headers |-> "none", arity |-> 0,
     exc |-> <<e>>]

\* logic._doctor_signature and logic._doctor_params of a bound logic function.
DoctorSignature(f) == Signature(f)
DoctorParams(f) == GetParamsFromFunc(Signature(f))

(***************************************************************************)
(* What a logic function may do when it is called.                         *)
(***************************************************************************)
ReturnValues == {Str(<<>>), PyNone, PyInt(<<"1", "7", "9">>), PyInt(<<"1", "7", "9", "1", "7">>)}
Plain(v) == [is_response |-> FALSE, content |-> v, headers |-> "none"]
Envelope(v, h) == [is_response |-> TRUE, content |-> v, headers |-> h]
LogicReturns == {Plain(v) : v \in ReturnValues} \cup {Envelope(v, "X-Foo") : v \in {Str(<<>>), PyNone}}
ErrorsCarrying == {"InvalidValueError", "TypeSystemError", "ParseError", "SchemaValidationError"}
LogicRaises ==
    {Exc(k, "absent", "logic") : k \in DoctorErrors \cup OtherErrors}
        \cup {Exc(k, "E1", "logic") : k \in ErrorsCarrying}

AllowedLists == {NoneList, ListOf({}), ListOf({"ValueError", "NotFoundError", "InvalidValueError"})}

(***************************************************************************)
(* str(value) and the truncation of the logged response text.              *)
(***************************************************************************)
PyStr(value) == IF value.py = "NoneType" THEN <<"N", "o", "n", "e">> ELSE value.v
\* six.text_type of a Response envelope: the default object text.
ResponseRepr == <<"<", "R", "e", "s", "p", "o", "n", "s", "e", ">">>
Ellipsis == <<".", ".", ".">>

\* A truncation that also cuts a text of exactly the limit's length.
TruncateResponse_Inclusive(response_str) ==
    IF Len(response_str) >= MAX_RESPONSE_LENGTH
    THEN SubSeq(response_str, 1, MAX_RESPONSE_LENGTH) \o Ellipsis
    ELSE response_str

TruncateResponse(response_str) ==
    IF Len(response_str) > MAX_RESPONSE_LENGTH
    THEN SubSeq(response_str, 1, MAX_RESPONSE_LENGTH) \o Ellipsis
    ELSE response_str

Warning(method, text, e) == [level |-> "warning", method |-> method, text |-> text, exc |-> <<e>>]
LogException(e) == [level |-> "exception", method |-> "", text |-> <<>>, exc |-> <<e>>]

\* bool(os.environ.get('RAISE_RESPONSE_VALIDATION_ERRORS', False))
EnvironOverride == environ \notin {"unset", ""}

\* A policy that does not read the environment.
should_raise_DebugOnly == debug

should_raise_response_validation_errors == debug \/ EnvironOverride


(***************************************************************************)
(* handle_http_v3: the type-annotation mode, one action per pipeline step. *)
(***************************************************************************)
\* A merge in which the request value wins over the router keyword.
Merged_RequestWins(a, b) == [k \in DOMAIN a \cup DOMAIN b |-> IF k \in DOMAIN a THEN a[k] ELSE b[k]]

\* params.update(**kwargs): the entries of b over those of a.
Merged(a, b) == [k \in DOMAIN a \cup DOMAIN b |-> IF k \in DOMAIN b THEN b[k] ELSE a[k]]

\* {k: v for k, v in request_params.items() if k in all_params}
Filtered(request_params, all_params) ==
    [k \in DOMAIN request_params \cap Range(all_params) |-> request_params[k]]

\* A dispatch in type-annotation mode starts: the router calls the handler.
BeginV3 ==
    /\ pc = "idle"
    /\ \E method \in Methods, mimetype \in Mimetypes, is_object \in BOOLEAN,
          data \in RequestData, kw \in RouterKwargs,
          f \in Logics, allowed \in AllowedLists :
        \* a JSON body that is no object holds no mapping
        /\ ~is_object => (mimetype = "application/json" /\ data = EmptyDict)
        /\ request' = [method |-> method, mimetype |-> mimetype, is_object |-> is_object,
                       data |-> data]
        /\ call' = [NoCall EXCEPT !.mode = "v3", !.logic = f, !.kwargs = kw,
                                  !.allowed_exceptions = allowed]
    /\ pc' = "extract"
    /\ UNCHANGED <<debug, environ, schema, params, response, raised, invoked, log, result,
                 routingVars, inspectVars>>

\* Lines 114-125: request.json or request.values, filtered, the kwargs merged in.
ExtractV3 ==
    /\ pc = "extract" /\ call.mode = "v3"
    /\ IF /\ request.mimetype = "application/json"
          /\ request.method \in HTTP_METHODS_WITH_JSON_BODY
          /\ ~request.is_object
       THEN \* request_params.items() of a JSON value that is no dict
            /\ raised' = <<Exc("AttributeError", "absent", "items")>>
            /\ pc' = "except"
            /\ UNCHANGED params
       ELSE /\ params' = Merged(Filtered(request.data, DoctorParams(call.logic).all),
                                call.kwargs)
            /\ pc' = "required"
            /\ UNCHANGED raised
    /\ UNCHANGED <<debug, environ, schema, request, call, response, invoked, log, result,
                 routingVars, inspectVars>>

\* A required check that reports the last missing name.
FirstMissing_Last(required, mapping) ==
    LET missing == {i \in 1..Len(required) : required[i] \notin DOMAIN mapping}
    IN required[CHOOSE i \in missing : \A j \in missing : j <= i]

\* The first name of `required`, in its order, that `mapping` lacks.
FirstMissing(required, mapping) ==
    LET missing == {i \in 1..Len(required) : required[i] \notin DOMAIN mapping}
    IN required[CHOOSE i \in missing : \A j \in missing : i <= j]

\* A pipeline that goes on to the coercion without the required check.
RequiredV3_Unchecked ==
    /\ pc = "required" /\ call.mode = "v3"
    /\ pc' = "coerce"
    /\ UNCHANGED <<debug, environ, schema, request, call, params, response, raised, invoked, log,
                 result, routingVars, inspectVars>>

\* Lines 128-130.
RequiredV3 ==
    /\ pc = "required" /\ call.mode = "v3"
    /\ LET required == DoctorParams(call.logic).required
       IN IF \E i \in 1..Len(required) : required[i] \notin DOMAIN params
          THEN /\ raised' = <<Exc("InvalidValueError", "absent", FirstMissing(required, params))>>
               /\ pc' = "except"
          ELSE /\ pc' = "coerce"
               /\ UNCHANGED raised
    /\ UNCHANGED <<debug, environ, schema, request, call, params, response, invoked, log, result,
                 routingVars, inspectVars>>

\* sig.parameters[name] raises KeyError, annotation(value) raises TypeSystemError.
CoercionFails(sig, name, value) ==
    \/ name \notin Range(Names(sig.parameters))
    \/ ~TypeAccepts(Annotation(sig, name), value)

CoercionError(sig, name) ==
    IF name \notin Range(Names(sig.parameters))
    THEN Exc("KeyError", "absent", name)
    ELSE Exc("TypeSystemError", "absent", name)

\* Lines 131-134.  params is iterated in its insertion order: the request's entries in
\* the request's order, then the names only the router supplied, in the router's order.
\* Both orders are inputs, so the first failing name is any failing name of the first
\* group that has one.
CoerceV3 ==
    /\ pc = "coerce" /\ call.mode = "v3"
    /\ LET sig == DoctorSignature(call.logic)
           fromRequest == DOMAIN params \cap DOMAIN request.data
           fromRouter == DOMAIN params \ DOMAIN request.data
           bad(K) == {k \in K : CoercionFails(sig, k, params[k])}
           firstBad == IF bad(fromRequest) # {} THEN bad(fromRequest) ELSE bad(fromRouter)
       IN IF firstBad # {}
          THEN /\ \E k \in firstBad : raised' = <<CoercionError(sig, k)>>
               /\ pc' = "except"
               /\ UNCHANGED params
          ELSE /\ params' = [k \in DOMAIN params |-> Coerce(Annotation(sig, k), params[k])]
               /\ pc' = "invoke"
               /\ UNCHANGED raised
    /\ UNCHANGED <<debug, environ, schema, request, call, response, invoked, log, result,
                 routingVars, inspectVars>>

\* Line 136: response = logic(*args, **params).
InvokeV3 ==
    /\ pc = "invoke" /\ call.mode = "v3"
    /\ invoked' = Append(invoked, params)
    /\ \/ \E r \in LogicReturns :
            /\ response' = r
            /\ pc' = "validate"
            /\ UNCHANGED raised
       \/ \E e \in LogicRaises :
            /\ raised' = <<e>>
            /\ pc' = "except"
            /\ UNCHANGED response
    /\ UNCHANGED <<debug, environ, schema, request, call, params, log, result,
                 routingVars, inspectVars>>

\* Lines 139-155.
ValidateV3 ==
    /\ pc = "validate" /\ call.mode = "v3"
    /\ LET sig == DoctorSignature(call.logic)
           _response == response.content
           e == Exc("TypeSystemError", "absent", "return")
       IN IF sig.return_annotation # "empty" /\ ~TypeAccepts(sig.return_annotation, _response)
          THEN /\ log' = Append(log, Warning(request.method,
                                             TruncateResponse(PyStr(_response)), e))
               /\ IF should_raise_response_validation_errors
                  THEN raised' = <<e>> /\ pc' = "except"
                  ELSE pc' = "shape" /\ UNCHANGED raised
          ELSE /\ pc' = "shape"
               /\ UNCHANGED <<log, raised>>
    /\ UNCHANGED <<debug, environ, schema, request, call, params, response, invoked, result,
                 routingVars, inspectVars>>

\* Lines 157-160 (and 249-252).
ShapeResponse(resp, method) ==
    IF resp.is_response
    THEN ReturnedWithHeaders(resp.content, StatusFor(method), resp.headers)
    ELSE Returned(resp.content, StatusFor(method))

ShapeV3 ==
    /\ pc = "shape" /\ call.mode = "v3"
    /\ result' = ShapeResponse(response, request.method)
    /\ pc' = "done"
    /\ UNCHANGED <<debug, environ, schema, request, call, params, response, raised, invoked, log,
                 routingVars, inspectVars>>

\* Line 161: the classes of the first except clause of handle_http_v3.
BadRequestErrorsV3 == {"InvalidValueError", "TypeSystemError"}

\* A catch-all that ignores allowed_exceptions.
Reraised_DebugOnly(e, allowed_exceptions) == debug

\* Lines 172-180 (and 264-272): is the exception re-raised as it is?
Reraised(e, allowed_exceptions) ==
    \/ debug
    \/ Truthy(allowed_exceptions) /\ \E cls \in allowed_exceptions.classes : IsInstance(e, cls)

\* A handler whose debug re-raise comes before the named except clauses.
TranslateV3_DebugFirst(e, allowed_exceptions) ==
    IF debug THEN e
    ELSE IF e.kind \in BadRequestErrorsV3 THEN HTTPException("HTTP400Exception", e, GetErrors(e))
    ELSE IF e.kind = "UnauthorizedError" THEN HTTPException("HTTP401Exception", e, "None")
    ELSE IF e.kind = "ForbiddenError" THEN HTTPException("HTTP403Exception", e, "None")
    ELSE IF e.kind = "NotFoundError" THEN HTTPException("HTTP404Exception", e, "None")
    ELSE IF e.kind = "ImmutableError" THEN HTTPException("HTTP409Exception", e, "None")
    ELSE IF Reraised(e, allowed_exceptions) THEN e
    ELSE HTTPMessage("HTTP500Exception", UncaughtMessage)

\* Lines 161-180: the exception that leaves handle_http_v3 for an exception e.
TranslateV3(e, allowed_exceptions) ==
    IF e.kind \in BadRequestErrorsV3 THEN HTTPException("HTTP400Exception", e, GetErrors(e))
    ELSE IF e.kind = "UnauthorizedError" THEN HTTPException("HTTP401Exception", e, "None")
    ELSE IF e.kind = "ForbiddenError" THEN HTTPException("HTTP403Exception", e, "None")
    ELSE IF e.kind = "NotFoundError" THEN HTTPException("HTTP404Exception", e, "None")
    ELSE IF e.kind = "ImmutableError" THEN HTTPException("HTTP409Exception", e, "None")
    ELSE IF Reraised(e, allowed_exceptions) THEN e
    ELSE HTTPMessage("HTTP500Exception", UncaughtMessage)

\* Line 179: logging.exception(e) before the 500.
LoggedV3(e, allowed_exceptions) ==
    IF TranslateV3(e, allowed_exceptions).kind = "HTTP500Exception"
    THEN <<LogException(e)>> ELSE <<>>

ExceptV3 ==
    /\ pc = "except" /\ call.mode = "v3"
    /\ result' = Raised(TranslateV3(raised[1], call.allowed_exceptions))
    /\ log' = log \o LoggedV3(raised[1], call.allowed_exceptions)
    /\ pc' = "done"
    /\ UNCHANGED <<debug, environ, schema, request, call, params, response, raised, invoked,
                 routingVars, inspectVars>>


(***************************************************************************)
(* handle_http: the schema mode, one action per pipeline step.             *)
(***************************************************************************)
\* The request entries and router keywords of the schema-mode dispatches.
SchemaRequestData == {m \in RequestData : DOMAIN m \subseteq {"name"} /\ Str(<<>>) \notin Range2(m)}
SchemaRouterKwargs == {m \in RouterKwargs : DOMAIN m \subseteq {"foo_id"}}

\* A dispatch in schema mode starts: the wrapper method calls schema.handle_http.
BeginSchema ==
    /\ pc = "idle"
    /\ \E method \in Methods, mimetype \in Mimetypes, is_object \in BOOLEAN,
          data \in SchemaRequestData, kw \in SchemaRouterKwargs,
          f \in Logics, allowed \in AllowedLists, flag \in BOOLEAN,
          request_schema \in BOOLEAN, request_validator \in BOOLEAN,
          response_validator \in BOOLEAN :
        /\ ~is_object => (mimetype = "application/json" /\ data = EmptyDict)
        \* without a request schema the request is not read and there is no validator
        /\ ~request_schema => /\ ~request_validator
                              /\ is_object /\ data = EmptyDict
                              /\ mimetype = "application/json"
        /\ f = "get_foo"
        /\ request' = [method |-> method, mimetype |-> mimetype, is_object |-> is_object,
                       data |-> data]
        /\ schema' = [exists |-> TRUE, raise_response_validation_errors |-> flag]
        /\ call' = [mode |-> "schema", logic |-> f, kwargs |-> kw,
                    allowed_exceptions |-> allowed, request_schema |-> request_schema,
                    request_validator |-> request_validator,
                    response_validator |-> response_validator]
    /\ pc' = "extract"
    /\ UNCHANGED <<debug, environ, params, response, raised, invoked, log, result,
                 routingVars, inspectVars>>

\* Lines 212-225 and 230: params from request.json or schema._parse_params, the kwargs
\* merged in; without a request schema the kwargs alone.
ParseSchema ==
    /\ pc = "extract" /\ call.mode = "schema"
    /\ IF ~call.request_schema
       THEN /\ params' = call.kwargs
            /\ pc' = "invoke"
            /\ UNCHANGED raised
       ELSE IF /\ request.mimetype = "application/json"
               /\ request.method \in HTTP_METHODS_WITH_JSON_BODY
            THEN IF request.is_object
                 THEN /\ params' = Merged(request.data, call.kwargs)
                      /\ pc' = "check"
                      /\ UNCHANGED raised
                 ELSE \* params.update of a JSON value that is no dict
                      /\ raised' = <<Exc("AttributeError", "absent", "update")>>
                      /\ pc' = "except"
                      /\ UNCHANGED params
            ELSE \/ /\ params' = Merged(request.data, call.kwargs)
                    /\ pc' = "check"
                    /\ UNCHANGED raised
                 \/ \* schema._parse_params cannot parse a value
                    /\ request.data # EmptyDict
                    /\ raised' = <<Exc("ParseError", "absent", "parse")>>
                    /\ pc' = "except"
                    /\ UNCHANGED params
    /\ UNCHANGED <<debug, environ, schema, request, call, response, invoked, log, result,
                 routingVars, inspectVars>>

\* Lines 226-227: schema.validate(params, request_validator).
CheckSchema ==
    /\ pc = "check" /\ call.mode = "schema"
    /\ \/ /\ pc' = "invoke"
          /\ UNCHANGED raised
       \/ /\ call.request_validator
          /\ raised' = <<Exc("SchemaValidationError", "E1", "request")>>
          /\ pc' = "except"
    /\ UNCHANGED <<debug, environ, schema, request, call, params, response, invoked, log, result,
                 routingVars, inspectVars>>

\* Lines 228 and 230: response = exec_params(logic, *args, **params).
InvokeSchema ==
    /\ pc = "invoke" /\ call.mode = "schema"
    /\ invoked' = Append(invoked, params)
    /\ \/ \E r \in LogicReturns :
            /\ response' = r
            /\ pc' = "validate"
            /\ UNCHANGED raised
       \/ \E e \in LogicRaises :
            /\ raised' = <<e>>
            /\ pc' = "except"
            /\ UNCHANGED response
    /\ UNCHANGED <<debug, environ, schema, request, call, params, log, result,
                 routingVars, inspectVars>>

\* A schema mode that also honours the debug flag and the environment override.
raise_response_validation_errors_Any ==
    schema.raise_response_validation_errors \/ should_raise_response_validation_errors

\* Line 246: the policy of the schema mode is the flag of the ResourceSchema.
raise_response_validation_errors == schema.raise_response_validation_errors

\* six.text_type(response): of the whole response, envelope included.
ResponseText(resp) == IF resp.is_response THEN ResponseRepr ELSE PyStr(resp.content)

\* Lines 231-247.  The validator is the JSON-schema engine: it accepts or rejects.
ValidateSchema ==
    /\ pc = "validate" /\ call.mode = "schema"
    /\ \/ /\ pc' = "shape"
          /\ UNCHANGED <<log, raised>>
       \/ /\ call.response_validator
          /\ LET e == Exc("SchemaValidationError", "E1", "response")
             IN /\ log' = Append(log, Warning(request.method,
                                              TruncateResponse(ResponseText(response)), e))
                /\ IF raise_response_validation_errors
                   THEN raised' = <<e>> /\ pc' = "except"
                   ELSE pc' = "shape" /\ UNCHANGED raised
    /\ UNCHANGED <<debug, environ, schema, request, call, params, response, invoked, result,
                 routingVars, inspectVars>>

ShapeSchema ==
    /\ pc = "shape" /\ call.mode = "schema"
    /\ result' = ShapeResponse(response, request.method)
    /\ pc' = "done"
    /\ UNCHANGED <<debug, environ, schema, request, call, params, response, raised, invoked, log,
                 routingVars, inspectVars>>

\* A first except clause that leaves ParseError to the catch-all.
BadRequestErrors_WithoutParse == {"InvalidValueError", "SchemaValidationError"}

\* Line 253: the classes of the first except clause of handle_http.
BadRequestErrors == {"InvalidValueError", "ParseError", "SchemaValidationError"}

\* Lines 253-272: the exception that leaves handle_http for an exception e.
Translate(e, allowed_exceptions) ==
    IF e.kind \in BadRequestErrors THEN HTTPException("HTTP400Exception", e, GetErrors(e))
    ELSE IF e.kind = "UnauthorizedError" THEN HTTPException("HTTP401Exception", e, "None")
    ELSE IF e.kind = "ForbiddenError" THEN HTTPException("HTTP403Exception", e, "None")
    ELSE IF e.kind = "NotFoundError" THEN HTTPException("HTTP404Exception", e, "None")
    ELSE IF e.kind = "ImmutableError" THEN HTTPException("HTTP409Exception", e, "None")
    ELSE IF Reraised(e, allowed_exceptions) THEN e
    ELSE HTTPMessage("HTTP500Exception", UncaughtMessage)

\* Line 271: logging.exception(e) before the 500.
Logged(e, allowed_exceptions) ==
    IF Translate(e, allowed_exceptions).kind = "HTTP500Exception"
    THEN <<LogException(e)>> ELSE <<>>

ExceptSchema ==
    /\ pc = "except" /\ call.mode = "schema"
    /\ result' = Raised(Translate(raised[1], call.allowed_exceptions))
    /\ log' = log \o Logged(raised[1], call.allowed_exceptions)
    /\ pc' = "done"
    /\ UNCHANGED <<debug, environ, schema, request, call, params, response, raised, invoked,
                 routingVars, inspectVars>>

(***************************************************************************)
(* routing.py: HTTPMethod, Route, create_http_method and create_routes.    *)
(***************************************************************************)
MaxDeclared == 2
MaxMethods == 2
MaxRoutes == 2

\* The method names of delete, get, post and put that the routes here bind.
HttpVerbs == {"get", "post"}
\* http_method.upper()
Upper(http_method) ==
    CASE http_method = "get" -> "GET"
      [] http_method = "post" -> "POST"
      [] http_method = "put" -> "PUT"
      [] http_method = "delete" -> "DELETE"

RoutingLogics == {"get_foo", "create_foo"}
RoutingAllowed == {NoneList, ListOf({"ValueError"})}
Titles == {"None"}

\* An attribute of a function object: <<>> while unset, <<value>> once set.
NoAttrs == [doctor_signature |-> <<>>, doctor_params |-> <<>>,
            doctor_allowed_exceptions |-> <<>>, doctor_title |-> <<>>]

\* HTTPMethod.__init__, lines 37-42: the attributes of logic afterwards.
HTTPMethodInit(attrs, logic, allowed_exceptions, title) ==
    LET a == attrs[logic]
    IN [attrs EXCEPT ![logic] =
          [doctor_signature |-> IF a.doctor_signature = <<>> THEN <<Signature(logic)>>
                                ELSE a.doctor_signature,
           doctor_params |-> IF a.doctor_params = <<>> THEN <<GetParamsFromFunc(Signature(logic))>>
                             ELSE a.doctor_params,
           doctor_allowed_exceptions |-> <<allowed_exceptions>>,
           doctor_title |-> <<title>>]]

\* delete(...), get(...), post(...), put(...): HTTPMethod(method, func, allowed_exceptions,
\* title).  The object keeps the method and the logic function only.
DeclareMethod ==
    /\ rpc = "declaring"
    /\ Len(declared) < MaxDeclared
    /\ Len(methods) < MaxMethods
    /\ \E method \in HttpVerbs, logic \in RoutingLogics, allowed \in RoutingAllowed,
          title \in Titles :
        /\ logic_attrs' = HTTPMethodInit(logic_attrs, logic, allowed, title)
        /\ declared' = Append(declared, [method |-> method, logic |-> logic,
                                         allowed_exceptions |-> allowed, title |-> title])
        /\ methods' = Append(methods, [id |-> Len(declared) + 1, method |-> method,
                                       logic |-> logic])
    /\ UNCHANGED <<routes, created_routes, rpc, hcall, dispatchVars, inspectVars>>

\* The base handler class and handler name a Route is given: the defaults, the
\* MyHandler of the test, and a base class that is no Flask view.
RouteOptions == {[base_handler_class |-> "Resource", handler_name |-> ""],
                 [base_handler_class |-> "Resource", handler_name |-> "MyHandler"],
                 [base_handler_class |-> "object", handler_name |-> ""]}
Path(i) == CASE i = 1 -> "^/foo/?$" [] i = 2 -> "^/foo/<int:foo_id>/?$" [] OTHER -> "^/bar/?$"

\* Route.__init__ with the HTTPMethod objects made since the last Route.
MakeRoute ==
    /\ rpc = "declaring"
    /\ Len(routes) < MaxRoutes
    /\ \E o \in RouteOptions :
        routes' = Append(routes, [route |-> Path(Len(routes) + 1), methods |-> methods,
                                  heading |-> "None",
                                  base_handler_class |-> o.base_handler_class,
                                  handler_name |-> o.handler_name])
    /\ methods' = <<>>
    /\ UNCHANGED <<logic_attrs, declared, created_routes, rpc, hcall, dispatchVars, inspectVars>>

\* create_http_method: fn closes over logic; functools.wraps copies the name and the
\* attributes logic has at that time.
create_http_method(logic, http_method, attrs) ==
    [logic |-> logic, name |-> logic, attrs |-> attrs[logic]]

NoFuncs == [v \in {} |-> create_http_method("get_foo", "get", [f \in Logics |-> NoAttrs])]
NoHandler == [exists |-> FALSE, name |-> "", heading |-> "None", base |-> "", funcs |-> NoFuncs,
              has_methods |-> FALSE, methods |-> <<>>]

\* Lines 147-150: Flask's MethodView gives the class made by type() a methods list
\* with the verbs defined in the class body.
IsMethodView(base_handler_class) == base_handler_class = "Resource"

\* Lines 141-144: type(handler_name, (base,), {..., http_method: http_func}).
NewHandler(r, handler_name, http_method, http_func) ==
    [exists |-> TRUE, name |-> handler_name, heading |-> r.heading,
     base |-> r.base_handler_class,
     funcs |-> [v \in {http_method} |-> http_func],
     has_methods |-> IsMethodView(r.base_handler_class),
     methods |-> IF IsMethodView(r.base_handler_class) THEN <<Upper(http_method)>> ELSE <<>>]

\* A synthesis that puts a later verb in front of the declared-methods list.
AddMethod_Prepend(handler, http_method, http_func) ==
    [handler EXCEPT
       !.funcs = [v \in DOMAIN handler.funcs \cup {http_method} |->
                    IF v = http_method THEN http_func ELSE handler.funcs[v]],
       !.methods = IF handler.has_methods THEN <<Upper(http_method)>> \o @ ELSE @]

\* Lines 146-152: setattr, and methods.append when the handler has the list.
AddMethod(handler, http_method, http_func) ==
    [handler EXCEPT
       !.funcs = [v \in DOMAIN handler.funcs \cup {http_method} |->
                    IF v = http_method THEN http_func ELSE handler.funcs[v]],
       !.methods = IF handler.has_methods THEN Append(@, Upper(http_method)) ELSE @]

\* Lines 130-152: the handler after the first n methods of route r.
RECURSIVE HandlerAfter(_, _, _)
HandlerAfter(r, n, attrs) ==
    IF n = 0 THEN NoHandler
    ELSE LET handler == HandlerAfter(r, n - 1, attrs)
             method == r.methods[n]
             http_func == create_http_method(method.logic, method.method, attrs)
             handler_name == IF r.handler_name # "" THEN r.handler_name ELSE method.logic
         IN IF ~handler.exists
            THEN NewHandler(r, handler_name, method.method, http_func)
            ELSE AddMethod(handler, method.method, http_func)

\* Lines 128-154.
create_routes(rs, attrs) ==
    [i \in 1..Len(rs) |-> [route |-> rs[i].route,
                           handler |-> HandlerAfter(rs[i], Len(rs[i].methods), attrs)]]

CreateRoutes ==
    /\ rpc = "declaring"
    /\ created_routes' = create_routes(routes, logic_attrs)
    /\ rpc' = "created"
    /\ UNCHANGED <<logic_attrs, declared, methods, routes, hcall, dispatchVars, inspectVars>>

\* flask.py line 183-184: the parameters of handle_http, none with a default.
HandleHttpParameters == <<"schema", "handler", "args", "kwargs", "logic", "request_schema",
                          "request_validator", "response_validator", "allowed_exceptions">>
\* routing.py line 96: the arguments fn passes, all positional.
FnArguments == <<"handler", "args", "kwargs", "logic">>
\* The parameters of handle_http the call leaves without a value.
MissingArguments ==
    {HandleHttpParameters[i] : i \in (Len(FnArguments) + 1)..Len(HandleHttpParameters)}

\* What the logic function of a call would do once called: return, or raise.
Behaviours == {<<>>, <<Exc("ValueError", "absent", "logic")>>}

NoHCall == [done |-> FALSE, route |-> 0, method |-> "", logic |-> "", behaviour |-> <<>>,
            invoked |-> <<>>, outcome |-> NoResult]

\* The router calls a callable of a created handler: fn(handler, *args, **kwargs), line
\* 95-96.  The call of handle_http lacks five required arguments: Python raises TypeError
\* before handle_http runs, so the logic function is not called.
CallHandler ==
    /\ rpc = "created"
    /\ ~hcall.done
    /\ \E i \in 1..Len(created_routes) :
         LET handler == created_routes[i].handler
         IN \E http_method \in DOMAIN handler.funcs, behaviour \in Behaviours :
              /\ MissingArguments # {}
              /\ hcall' = [done |-> TRUE, route |-> i, method |-> http_method,
                           logic |-> handler.funcs[http_method].logic,
                           behaviour |-> behaviour, invoked |-> <<>>,
                           outcome |-> Raised(Exc("TypeError", "absent", "handle_http"))]
    /\ UNCHANGED <<logic_attrs, declared, methods, routes, created_routes, rpc, dispatchVars, inspectVars>>

(***************************************************************************)
(* HTTPMethod.__init__ statement by statement, run by threads that share   *)
(* the logic functions: the presence checks and the writes of two bindings *)
(* may interleave.                                                         *)
(***************************************************************************)
MaxBindings == 2
Threads == {1, 2}
BindingTitles == {"None", "Create Foo"}

NoBinder == [pc |-> "idle", method |-> "", logic |-> "", allowed_exceptions |-> NoneList,
             title |-> "None", had_signature |-> FALSE, had_params |-> FALSE]

\* The bindings begun so far: the HTTPMethod objects made and those being made.
Begun == Len(declared) + Cardinality({t \in Threads : binder[t].pc # "idle"})

\* The first thread declares its bindings with get(...), the second with post(...).
VerbOf(t) == IF t = 1 THEN "get" ELSE "post"

\* Line 28-30: HTTPMethod(method, logic, allowed_exceptions, title) is called.
BeginBinding(t) ==
    /\ binder[t].pc = "idle"
    /\ Begun < MaxBindings
    /\ \E method \in {VerbOf(t)}, logic \in RoutingLogics, allowed \in RoutingAllowed,
          title \in BindingTitles :
        binder' = [binder EXCEPT ![t] =
                     [pc |-> "check_signature", method |-> method, logic |-> logic,
                      allowed_exceptions |-> allowed, title |-> title,
                      had_signature |-> logic_attrs[logic].doctor_signature # <<>>,
                      had_params |-> logic_attrs[logic].doctor_params # <<>>]]
    /\ UNCHANGED <<logic_attrs, declared, computed, methods, routes, created_routes, rpc, hcall,
                   dispatchVars, resolveVars, annotationVars>>

\* A binding that computes the signature whether or not the function carries one.
CheckSignature_Always(t) ==
    /\ binder[t].pc = "check_signature"
    /\ binder' = [binder EXCEPT ![t].pc = "set_signature"]
    /\ UNCHANGED <<logic_attrs, declared, computed, methods, routes, created_routes, rpc, hcall,
                   dispatchVars, resolveVars, annotationVars>>

\* Line 37: if not hasattr(logic, '_doctor_signature').
CheckSignature(t) ==
    /\ binder[t].pc = "check_signature"
    /\ binder' = [binder EXCEPT ![t].pc =
                     IF logic_attrs[binder[t].logic].doctor_signature = <<>>
                     THEN "set_signature" ELSE "check_params"]
    /\ UNCHANGED <<logic_attrs, declared, computed, methods, routes, created_routes, rpc, hcall,
                   dispatchVars, resolveVars, annotationVars>>

\* Line 38: logic._doctor_signature = inspect.signature(logic).
SetSignature(t) ==
    /\ binder[t].pc = "set_signature"
    /\ logic_attrs' = [logic_attrs EXCEPT ![binder[t].logic].doctor_signature =
                          <<Signature(binder[t].logic)>>]
    /\ computed' = computed \cup {[by |-> t, logic |-> binder[t].logic,
                                    attribute |-> "_doctor_signature",
                                    carried |-> binder[t].had_signature]}
    /\ binder' = [binder EXCEPT ![t].pc = "check_params"]
    /\ UNCHANGED <<declared, methods, routes, created_routes, rpc, hcall,
                   dispatchVars, resolveVars, annotationVars>>

\* Line 39: if not hasattr(logic, '_doctor_params').
CheckParams(t) ==
    /\ binder[t].pc = "check_params"
    /\ binder' = [binder EXCEPT ![t].pc =
                     IF logic_attrs[binder[t].logic].doctor_params = <<>>
                     THEN "set_params" ELSE "set_allowed_exceptions"]
    /\ UNCHANGED <<logic_attrs, declared, computed, methods, routes, created_routes, rpc, hcall,
                   dispatchVars, resolveVars, annotationVars>>

\* Line 40: logic._doctor_params = get_params_from_func(logic), which reads the
\* signature line 38 or an earlier binding left on the function.
SetParams(t) ==
    /\ binder[t].pc = "set_params"
    /\ logic_attrs' = [logic_attrs EXCEPT ![binder[t].logic].doctor_params =
                          <<GetParamsFromFunc(logic_attrs[binder[t].logic].doctor_signature[1])>>]
    /\ computed' = computed \cup {[by |-> t, logic |-> binder[t].logic,
                                    attribute |-> "_doctor_params",
                                    carried |-> binder[t].had_params]}
    /\ binder' = [binder EXCEPT ![t].pc = "set_allowed_exceptions"]
    /\ UNCHANGED <<declared, methods, routes, created_routes, rpc, hcall,
                   dispatchVars, resolveVars, annotationVars>>

\* Line 41: logic._doctor_allowed_exceptions = allowed_exceptions.
SetAllowedExceptions(t) ==
    /\ binder[t].pc = "set_allowed_exceptions"
    /\ logic_attrs' = [logic_attrs EXCEPT ![binder[t].logic].doctor_allowed_exceptions =
                          <<binder[t].allowed_exceptions>>]
    /\ binder' = [binder EXCEPT ![t].pc = "set_title"]
    /\ UNCHANGED <<declared, computed, methods, routes, created_routes, rpc, hcall,
                   dispatchVars, resolveVars, annotationVars>>

\* Lines 42-43: logic._doctor_title = title; self.logic = logic.  The HTTPMethod object
\* is complete.
SetTitle(t) ==
    /\ binder[t].pc = "set_title"
    /\ logic_attrs' = [logic_attrs EXCEPT ![binder[t].logic].doctor_title = <<binder[t].title>>]
    /\ declared' = Append(declared, [method |-> binder[t].method, logic |-> binder[t].logic,
                                     allowed_exceptions |-> binder[t].allowed_exceptions,
                                     title |-> binder[t].title])
    /\ binder' = [binder EXCEPT ![t] = NoBinder]
    /\ UNCHANGED <<computed, methods, routes, created_routes, rpc, hcall,
                   dispatchVars, resolveVars, annotationVars>>

(***************************************************************************)
(* get_params_from_func on a logic function, plain or decorated.  A        *)
(* function is its real signature and the layers that wrap it; a layer is  *)
(* made with functools.wraps and passes one leading positional argument,   *)
(* as pass_pos_param of test_routing.py does.                              *)
(***************************************************************************)
MaxParams == 3
MaxLayers == 1
ParamNames == {"extra", "name", "age", "is_alive"}
\* The annotations of a parameter: two validating types, a class that is no SuperType,
\* and none at all.
ParamAnnotations == {"Name", "IsAlive", "str", "empty"}

\* The parameter lists Python accepts: distinct names, no parameter without a default
\* after one with a default.
IsParameterList(ps) ==
    /\ \A i, j \in 1..Len(ps) : i # j => ps[i].name # ps[j].name
    /\ \A i, j \in 1..Len(ps) : (i < j /\ ps[i].has_default) => ps[j].has_default

ParameterLists ==
    UNION {{ps \in [1..n -> [name : ParamNames, annotation : ParamAnnotations,
                             has_default : BOOLEAN]] : IsParameterList(ps)} : n \in 0..MaxParams}

\* A layer passes one leading argument, so the function has a parameter for each.
Functions ==
    {f \in [signature : {[parameters |-> ps, return_annotation |-> "Foo"] : ps \in ParameterLists},
            layers : 0..MaxLayers] : f.layers <= Len(f.signature.parameters)}

\* inspect.signature(func): functools.wraps leaves __wrapped__ on every layer, and the
\* signature is that of the innermost function.
InspectSignature(f) == f.signature

NoFunction == [signature |-> [parameters |-> <<>>, return_annotation |-> "empty"], layers |-> 0]

\* get_params_from_func(func) is called.
Resolve ==
    /\ resolved = <<>>
    /\ resolved' = <<GetParamsFromFunc(InspectSignature(func))>>
    /\ UNCHANGED <<func, dispatchVars, routingVars, bindingVars, annotationVars>>

(***************************************************************************)
(* ResourceSchemaAnnotation.get_annotation, statement by statement, on a   *)
(* heap of function objects.  An object may carry a _schema_annotation,    *)
(* may have an im_func attribute naming another object, and has a          *)
(* __closure__ that is None or a tuple whose first cell holds a function   *)
(* object, some other value, or nothing yet (an empty cell).               *)
(***************************************************************************)
MaxObjects == 2
Objects == 1..MaxObjects

NoObject == [kind |-> "None", ref |-> 0]
Function(o) == [kind |-> "function", ref |-> o]
OtherValue == [kind |-> "value", ref |-> 0]
References == {Function(o) : o \in Objects}

\* closure[0] of an object: no closure at all, an empty cell, or the cell's contents.
NoClosure == [kind |-> "no closure", ref |-> 0]
EmptyCell == [kind |-> "empty cell", ref |-> 0]
FirstCells == {NoClosure, EmptyCell, OtherValue} \cup References

FunctionObjects ==
    [has_annotation : BOOLEAN, im_func : {NoObject} \cup References, cell : FirstCells]
Heaps == [Objects -> FunctionObjects]

\* fn._schema_annotation: the annotation attached to object o.
SchemaAnnotation(o) == [kind |-> "annotation", ref |-> o]
Running == [type |-> "pending", value |-> NoObject]
ReturnedAnnotation(v) == [type |-> "return", value |-> v]
RaisedValueError == [type |-> "raise", value |-> [kind |-> "ValueError", ref |-> 0]]

\* hasattr(fn, name) / getattr(fn, name, default) of what fn may be: only function
\* objects carry the attributes looked for here.
HasSchemaAnnotation(h, f) == f.kind = "function" /\ h[f.ref].has_annotation
GetImFunc(h, f) == IF f.kind = "function" /\ h[f.ref].im_func # NoObject THEN h[f.ref].im_func ELSE f
GetClosure(h, f) == IF f.kind = "function" THEN h[f.ref].cell ELSE NoClosure

\* Line 53: while fn is not None; line 59: return None.
While ==
    /\ apc = "while"
    /\ IF fn = NoObject
       THEN annotation' = ReturnedAnnotation(NoObject) /\ apc' = "done"
       ELSE apc' = "hasattr" /\ UNCHANGED annotation
    /\ UNCHANGED <<heap, arg, fn, closure, dispatchVars, routingVars, bindingVars, resolveVars>>

\* Lines 54-55: if hasattr(fn, '_schema_annotation'): return fn._schema_annotation.
HasAttr ==
    /\ apc = "hasattr"
    /\ IF HasSchemaAnnotation(heap, fn)
       THEN annotation' = ReturnedAnnotation(SchemaAnnotation(fn.ref)) /\ apc' = "done"
       ELSE apc' = "im_func" /\ UNCHANGED annotation
    /\ UNCHANGED <<heap, arg, fn, closure, dispatchVars, routingVars, bindingVars, resolveVars>>

\* Line 56: fn = getattr(fn, 'im_func', fn).
ImFunc ==
    /\ apc = "im_func"
    /\ fn' = GetImFunc(heap, fn)
    /\ apc' = "closure"
    /\ UNCHANGED <<heap, arg, closure, annotation, dispatchVars, routingVars, bindingVars,
                   resolveVars>>

\* Line 57: closure = getattr(fn, '__closure__', None).
Closure ==
    /\ apc = "closure"
    /\ closure' = GetClosure(heap, fn)
    /\ apc' = "cell"
    /\ UNCHANGED <<heap, arg, fn, annotation, dispatchVars, routingVars, bindingVars, resolveVars>>

\* Line 58: fn = closure[0].cell_contents if closure is not None else None.  Reading an
\* empty cell raises ValueError.
CellContents ==
    /\ apc = "cell"
    /\ CASE closure = NoClosure -> fn' = NoObject /\ apc' = "while" /\ UNCHANGED annotation
         [] closure = EmptyCell -> annotation' = RaisedValueError /\ apc' = "done" /\ UNCHANGED fn
         [] OTHER -> fn' = closure /\ apc' = "while" /\ UNCHANGED annotation
    /\ UNCHANGED <<heap, arg, closure, dispatchVars, routingVars, bindingVars, resolveVars>>

(***************************************************************************)
(* The specification of the request pipeline.                              *)
(***************************************************************************)
InitRoutingVars ==
    /\ logic_attrs = [f \in Logics |-> NoAttrs]
    /\ declared = <<>>
    /\ methods = <<>>
    /\ routes = <<>>
    /\ created_routes = <<>>
    /\ rpc = "declaring"
    /\ hcall = NoHCall

InitBindingVars ==
    /\ binder = [t \in Threads |-> NoBinder]
    /\ computed = {}

InitResolveVars ==
    /\ func = NoFunction
    /\ resolved = <<>>

InitAnnotationVars ==
    /\ heap = [o \in Objects |-> [has_annotation |-> FALSE, im_func |-> NoObject,
                                   cell |-> NoClosure]]
    /\ arg = NoObject
    /\ fn = NoObject
    /\ closure = NoClosure
    /\ apc = "idle"
    /\ annotation = Running

InitInspectVars == InitBindingVars /\ InitResolveVars /\ InitAnnotationVars

Init ==
    /\ debug \in BOOLEAN
    /\ environ \in {"unset", "", "1"}
    /\ schema = NoSchema
    /\ request = NoRequest
    /\ call = NoCall
    /\ pc = "idle"
    /\ params = EmptyDict
    /\ response = NoResponse
    /\ raised = <<>>
    /\ invoked = <<>>
    /\ log = <<>>
    /\ result = NoResult
    /\ InitRoutingVars
    /\ InitInspectVars

Next ==
    \/ BeginV3
    \/ ExtractV3
    \/ RequiredV3
    \/ CoerceV3
    \/ InvokeV3
    \/ ValidateV3
    \/ ShapeV3
    \/ ExceptV3
    \/ BeginSchema
    \/ ParseSchema
    \/ CheckSchema
    \/ InvokeSchema
    \/ ValidateSchema
    \/ ShapeSchema
    \/ ExceptSchema

vars == <<dispatchVars, routingVars, inspectVars>>

Spec == Init /\ [][Next]_vars

(***************************************************************************)
(* The specification of route declaration and synthesis: the application   *)
(* declares its routes, create_routes builds the handlers, and the router  *)
(* calls their callables.  Debug is off.                                   *)
(***************************************************************************)
InitRouting ==
    /\ debug = FALSE
    /\ environ = "unset"
    /\ schema = NoSchema
    /\ request = NoRequest
    /\ call = NoCall
    /\ pc = "idle"
    /\ params = EmptyDict
    /\ response = NoResponse
    /\ raised = <<>>
    /\ invoked = <<>>
    /\ log = <<>>
    /\ result = NoResult
    /\ InitRoutingVars
    /\ InitInspectVars

NextRouting ==
    \/ DeclareMethod
    \/ MakeRoute
    \/ CreateRoutes
    \/ CallHandler

SpecRouting == InitRouting /\ [][NextRouting]_vars

(***************************************************************************)
(* The specification of binding: threads declare HTTP methods on shared    *)
(* logic functions.                                                        *)
(***************************************************************************)
InitDispatchIdle ==
    /\ debug = FALSE
    /\ environ = "unset"
    /\ schema = NoSchema
    /\ request = NoRequest
    /\ call = NoCall
    /\ pc = "idle"
    /\ params = EmptyDict
    /\ response = NoResponse
    /\ raised = <<>>
    /\ invoked = <<>>
    /\ log = <<>>
    /\ result = NoResult

InitBinding == InitDispatchIdle /\ InitRoutingVars /\ InitInspectVars

NextBinding ==
    \/ \E t \in Threads : BeginBinding(t)
    \/ \E t \in Threads : CheckSignature(t)
    \/ \E t \in Threads : SetSignature(t)
    \/ \E t \in Threads : CheckParams(t)
    \/ \E t \in Threads : SetParams(t)
    \/ \E t \in Threads : SetAllowedExceptions(t)
    \/ \E t \in Threads : SetTitle(t)

SpecBinding == InitBinding /\ [][NextBinding]_vars

(***************************************************************************)
(* The specification of parameter resolution: get_params_from_func is      *)
(* applied to a function.                                                  *)
(***************************************************************************)
InitResolve ==
    /\ InitDispatchIdle /\ InitRoutingVars /\ InitBindingVars /\ InitAnnotationVars
    /\ func \in Functions
    /\ resolved = <<>>

NextResolve == Resolve

SpecResolve == InitResolve /\ [][NextResolve]_vars

(***************************************************************************)
(* The specification of get_annotation: one call, on any heap and any      *)
(* starting object.  The call is a running loop: it takes its next step.   *)
(***************************************************************************)
InitAnnotation ==
    /\ InitDispatchIdle /\ InitRoutingVars /\ InitBindingVars /\ InitResolveVars
    /\ heap \in Heaps
    /\ arg \in {NoObject} \cup References
    /\ fn = arg
    /\ closure = NoClosure
    /\ apc = "while"
    /\ annotation = Running

NextAnnotation ==
    \/ While
    \/ HasAttr
    \/ ImFunc
    \/ Closure
    \/ CellContents

SpecAnnotation == InitAnnotation /\ [][NextAnnotation]_vars /\ WF_vars(NextAnnotation)

(***************************************************************************)
(* Properties of the request pipeline.                                     *)
(***************************************************************************)
\* The dispatch is over and an exception escaped its pipeline steps.
Escaped == pc = "done" /\ raised # <<>>
escaping == raised[1]
leaving == result.exc[1]

\* The 400 error made of an exception: its description is the exception, its errobj the
\* exception's errors payload, None when it has none.
BadRequestOf(e) ==
    [kind |-> "HTTP400Exception", errors |-> "absent", about |-> "", description |-> <<e>>,
     errobj |-> IF e.errors = "absent" THEN "None" ELSE e.errors]

\* C1 as stated: in both modes every invalid-value, parse and schema-validation error
\* that escapes the pipeline steps becomes the HTTP 400 error carrying its errors payload.
C1_BothModesBadRequest ==
    (Escaped /\ escaping.kind \in {"InvalidValueError", "ParseError", "SchemaValidationError"})
        => result = Raised(BadRequestOf(escaping))

\* C1 amended: the schema mode turns invalid-value, parse and schema-validation errors
\* into the 400 error, the type-annotation mode invalid-value and type-system errors; the
\* 400 error carries the errors payload of the exception (None without one).  A parse or
\* schema-validation error escaping the type-annotation mode is treated as any other
\* exception: it leaves as a 500 error or as it is.
C1_BadRequestPerMode ==
    /\ (Escaped /\ call.mode = "schema"
          /\ escaping.kind \in {"InvalidValueError", "ParseError", "SchemaValidationError"})
        => result = Raised(BadRequestOf(escaping))
    /\ (Escaped /\ call.mode = "v3"
          /\ escaping.kind \in {"InvalidValueError", "TypeSystemError"})
        => result = Raised(BadRequestOf(escaping))
    /\ (Escaped /\ call.mode = "v3"
          /\ escaping.kind \in {"ParseError", "SchemaValidationError"})
        => /\ result.type = "raise"
           /\ leaving = escaping \/ leaving.kind = "HTTP500Exception"

C1_Witness ==
    /\ Escaped /\ call.mode = "schema"
    /\ escaping.kind = "SchemaValidationError" /\ escaping.errors = "E1"
    /\ result.type = "raise" /\ leaving.kind = "HTTP400Exception" /\ leaving.errobj = "E1"

\* The exception classes the five except clauses before the catch-all name, per mode.
NamedKinds(mode) ==
    {"UnauthorizedError", "ForbiddenError", "NotFoundError", "ImmutableError", "InvalidValueError"}
        \cup (IF mode = "v3" THEN {"TypeSystemError"} ELSE {"ParseError", "SchemaValidationError"})

MatchesAllowList(e, allowed) ==
    ~allowed.none /\ \E cls \in allowed.classes : cls = e.kind \/ cls = "Exception"

\* C2: an exception that none of the five except clauses names leaves as the 500 error
\* with the fixed message, after being logged, iff debug is off and it matches no entry
\* of the allowed-exceptions list; otherwise it leaves dispatch as it is, unlogged.
C2_CatchAll ==
    (Escaped /\ escaping.kind \notin NamedKinds(call.mode))
        => IF ~debug /\ ~MatchesAllowList(escaping, call.allowed_exceptions)
           THEN /\ result.type = "raise"
                /\ leaving.kind = "HTTP500Exception"
                /\ leaving.about = "Uncaught error in logic function"
                /\ leaving.description = <<>>
                /\ log # <<>> /\ log[Len(log)] = LogException(escaping)
           ELSE /\ result = Raised(escaping)
                /\ \A i \in 1..Len(log) : log[i].level # "exception"

C2_Witness ==
    /\ Escaped /\ escaping.kind = "KeyError" /\ ~debug
    /\ call.allowed_exceptions.classes # {}
    /\ leaving.kind = "HTTP500Exception"

StatusClassOf(kind) ==
    CASE kind = "UnauthorizedError" -> "HTTP401Exception"
      [] kind = "ForbiddenError" -> "HTTP403Exception"
      [] kind = "NotFoundError" -> "HTTP404Exception"
      [] kind = "ImmutableError" -> "HTTP409Exception"
      [] kind = "InvalidValueError" -> "HTTP400Exception"

\* C4: unauthorized, forbidden, not-found, immutable and invalid-value errors leave as
\* the 401, 403, 404, 409 and 400 error, whatever debug and the allow-list are; none is
\* re-raised as it is.
C4_NamedAlwaysMap ==
    (Escaped /\ escaping.kind \in {"UnauthorizedError", "ForbiddenError", "NotFoundError",
                                   "ImmutableError", "InvalidValueError"})
        => /\ result.type = "raise"
           /\ leaving.kind = StatusClassOf(escaping.kind)
           /\ leaving.description = <<escaping>>
           /\ leaving # escaping

C4_Witness ==
    /\ Escaped /\ debug /\ escaping.kind = "NotFoundError"
    /\ "NotFoundError" \in call.allowed_exceptions.classes
    /\ leaving.kind = "HTTP404Exception"

\* The merged parameter mapping of a type-annotation dispatch: the request entries
\* whose key is a name of `all`, then the router keyword arguments over them.
RequestIsMapping ==
    ~(request.mimetype = "application/json" /\ request.method \in {"POST", "PUT", "PATCH"}
        /\ ~request.is_object)
AllNames == Range(DoctorParams(call.logic).all)
MergedNames == (DOMAIN request.data \cap AllNames) \cup DOMAIN call.kwargs
RawValue(k) == IF k \in DOMAIN call.kwargs THEN call.kwargs[k] ELSE request.data[k]
RequiredNames == DoctorParams(call.logic).required
MissingAt == {i \in 1..Len(RequiredNames) : RequiredNames[i] \notin MergedNames}

\* C5: in type-annotation mode, when a name of `required` is absent from the merged
\* mapping, dispatch raises the 400 error of an invalid-value error naming the first
\* missing name in `required` order, and the logic function is not invoked.
C5_RequiredMissing ==
    (pc = "done" /\ call.mode = "v3" /\ RequestIsMapping /\ MissingAt # {})
        => /\ result.type = "raise"
           /\ leaving.kind = "HTTP400Exception"
           /\ leaving.description # <<>>
           /\ leaving.description[1].kind = "InvalidValueError"
           /\ \E i \in MissingAt :
                /\ \A j \in MissingAt : i <= j
                /\ leaving.description[1].about = RequiredNames[i]
           /\ invoked = <<>>

C5_Witness ==
    /\ pc = "done" /\ call.mode = "v3" /\ call.logic = "get_foo"
    /\ "name" \in MergedNames /\ "age" \notin MergedNames
    /\ result.type = "raise" /\ leaving.kind = "HTTP400Exception"
    /\ leaving.description[1].about = "age"

\* The declared return type rejects what the logic function returned.
ReturnRejected ==
    /\ call.mode = "v3" /\ response # NoResponse
    /\ DoctorSignature(call.logic).return_annotation # "empty"
    /\ ~TypeAccepts(DoctorSignature(call.logic).return_annotation, response.content)
Warned == \E i \in 1..Len(log) : log[i].level = "warning"
\* The environment override counts as set when the variable has a non-empty value.
EnvironSet == environ \notin {"unset", ""}
VerbStatus == CASE request.method = "POST" -> 201 [] request.method = "DELETE" -> 204 [] OTHER -> 200

\* C6: in type-annotation mode, when the declared return type rejects the return value
\* (the content of an envelope), a warning is logged; with neither debug nor the
\* environment override set the original value is returned with the verb's status and no
\* exception; with either set an exception leaves dispatch and nothing is returned.
C6_ReturnValidation ==
    (pc = "done" /\ ReturnRejected)
        => /\ Warned
           /\ (~debug /\ ~EnvironSet)
                => /\ result.type = "return"
                   /\ result.body = response.content
                   /\ result.status = VerbStatus
           /\ (debug \/ EnvironSet) => result.type = "raise"

C6_Witness ==
    /\ pc = "done" /\ ReturnRejected /\ ~debug /\ environ = "unset"
    /\ request.method = "GET" /\ result.type = "return" /\ result.status = 200 /\ Warned

\* C7 as stated: in both modes a response-validation failure is re-raised when any of
\* the per-resource flag, the debug flag and the environment override is set, and only
\* logged, the response returned, when none is.
C7_AnyPolicySource ==
    (pc = "done" /\ Warned)
        => (result.type = "raise"
              <=> (schema.raise_response_validation_errors \/ debug \/ EnvironSet))

\* C7 amended: a response-validation failure is re-raised in type-annotation mode iff
\* the debug flag or the environment override is set, and in schema mode iff the
\* per-resource flag is set; otherwise it is only logged and the response returned.
C7_PolicyPerMode ==
    (pc = "done" /\ Warned)
        => /\ call.mode = "v3" => (result.type = "raise" <=> (debug \/ EnvironSet))
           /\ call.mode = "schema"
                => (result.type = "raise" <=> schema.raise_response_validation_errors)
           /\ result.type = "return" => result.body = response.content

C7_Witness ==
    /\ pc = "done" /\ Warned /\ call.mode = "schema"
    /\ debug /\ ~schema.raise_response_validation_errors
    /\ result.type = "return"

\* C8: a dispatch that completes without an exception returns 201 for POST, 204 for
\* DELETE and 200 for any other verb; for a Response envelope the 3-tuple (content,
\* status, headers), otherwise the 2-tuple (return value, status).
C8_StatusAndShape ==
    (pc = "done" /\ result.type = "return")
        => /\ result.status = VerbStatus
           /\ result.body = response.content
           /\ IF response.is_response
              THEN result.arity = 3 /\ result.headers = response.headers
              ELSE result.arity = 2 /\ result.headers = "none"

C8_Witness ==
    /\ pc = "done" /\ result.type = "return" /\ request.method = "DELETE"
    /\ response.is_response /\ result.arity = 3 /\ result.status = 204

\* C9: in type-annotation mode the logic function is called with exactly the router
\* keyword arguments plus the request entries whose key is in `all` and is no router
\* keyword; each value is the parameter's declared type applied to the raw value.
C9_CallArguments ==
    (call.mode = "v3" /\ invoked # <<>>)
        => /\ DOMAIN invoked[1] = MergedNames
           /\ \A k \in MergedNames :
                LET type == Annotation(DoctorSignature(call.logic), k)
                IN /\ TypeAccepts(type, RawValue(k))
                   /\ invoked[1][k] = [py |-> type, v |-> RawValue(k).v]

C9_Witness ==
    /\ call.mode = "v3" /\ invoked # <<>>
    /\ "junk" \in DOMAIN request.data
    /\ "name" \in DOMAIN request.data /\ "name" \in DOMAIN call.kwargs
    /\ "age" \in DOMAIN invoked[1]
    /\ invoked[1]["name"].v = call.kwargs["name"].v
    /\ call.kwargs["name"] # request.data["name"]

\* The text of the response as the warning's code makes it: str(_response) of the
\* unwrapped content in type-annotation mode, six.text_type(response) in schema mode.
Stringified == IF call.mode = "v3" THEN PyStr(response.content) ELSE ResponseText(response)
Warnings == {i \in 1..Len(log) : log[i].level = "warning"}

\* C12: in both modes the response text of the response-validation warning is the
\* stringified response unchanged when it has at most MAX_RESPONSE_LENGTH characters,
\* and otherwise exactly its first MAX_RESPONSE_LENGTH characters followed by '...';
\* the logged text never holds more than MAX_RESPONSE_LENGTH characters of the response.
C12_TruncatedLog ==
    \A i \in Warnings :
        LET text == log[i].text
            s == Stringified
        IN IF Len(s) <= MAX_RESPONSE_LENGTH
           THEN text = s
           ELSE /\ Len(text) = MAX_RESPONSE_LENGTH + 3
                /\ \A j \in 1..MAX_RESPONSE_LENGTH : text[j] = s[j]
                /\ \A j \in 1..3 : text[MAX_RESPONSE_LENGTH + j] = "."

C12_Witness ==
    /\ pc = "done" /\ Warnings # {}
    /\ Len(Stringified) > MAX_RESPONSE_LENGTH
    /\ \E i \in Warnings : Len(log[i].text) = MAX_RESPONSE_LENGTH + 3

\* The place of a pipeline step in the declared order.
StepOrder(step) ==
    CASE step = "idle" -> 0
      [] step = "extract" -> 1
      [] step \in {"required", "check"} -> 2
      [] step = "coerce" -> 3
      [] step = "invoke" -> 4
      [] step = "validate" -> 5
      [] step = "shape" -> 6
      [] step = "except" -> 7
      [] step = "done" -> 8

\* C15: in every dispatch the steps run in the declared order and the logic function
\* is invoked at most once: only at the invocation step, with no failure behind it,
\* after the required check has passed and every supplied parameter has been coerced;
\* response validation happens only after the invocation, and no step after a failure
\* invokes the logic function again.
C15_SingleAttemptInOrder ==
    [][/\ StepOrder(pc') > StepOrder(pc)
       /\ pc' \in {"required", "check"} => pc = "extract"
       /\ pc' = "coerce" => pc = "required"
       /\ pc' = "invoke"
            => \/ call.mode = "v3" /\ pc = "coerce"
               \/ call.mode = "schema" /\ call.request_schema /\ pc = "check"
               \/ call.mode = "schema" /\ ~call.request_schema /\ pc = "extract"
       /\ pc' = "validate" => pc = "invoke"
       /\ pc' = "shape" => pc = "validate"
       /\ Len(invoked') <= 1
       /\ invoked' # invoked
            => /\ invoked = <<>> /\ raised = <<>> /\ pc = "invoke"
               /\ invoked' = <<params>>
               /\ call.mode = "v3"
                    => /\ Range(DoctorParams(call.logic).required) \subseteq DOMAIN params
                       /\ \A k \in DOMAIN params :
                            params[k].py = Annotation(DoctorSignature(call.logic), k)
       /\ (pc = "validate" \/ pc' = "validate") => Len(invoked') = 1
       /\ (\E i \in 1..Len(log') : i > Len(log) /\ log'[i].level = "warning")
            => pc = "validate" /\ Len(invoked) = 1
       /\ raised # <<>> => (invoked' = invoked /\ raised' = raised /\ pc' = "done")
      ]_vars

\* A dispatch that failed after its one invocation.
C15_Witness ==
    /\ pc = "done" /\ Len(invoked) = 1 /\ Warnings # {}
    /\ result.type = "raise" /\ call.mode = "v3"
    /\ DoctorParams(call.logic).required # <<>>

(***************************************************************************)
(* Properties of route declaration and synthesis.                          *)
(***************************************************************************)
\* The positions in route i of the bindings of a verb, and the binding whose callable
\* the handler exposes for the verb: the last one.
PositionsOf(i, verb) == {k \in 1..Len(routes[i].methods) : routes[i].methods[k].method = verb}
BindingOf(i, verb) ==
    routes[i].methods[CHOOSE k \in PositionsOf(i, verb) : \A j \in PositionsOf(i, verb) : j <= k]
BoundVerbs(i) == {routes[i].methods[k].method : k \in 1..Len(routes[i].methods)}

\* C3: with debug off, when the logic function of a handler callable raises an exception
\* whose type is in the allowed-exceptions list its binding was declared with, the
\* callable re-raises that exception unchanged.
C3_AllowListReraises ==
    (/\ hcall.done /\ ~debug /\ hcall.behaviour # <<>>
     /\ LET allowed == declared[BindingOf(hcall.route, hcall.method).id].allowed_exceptions
        IN ~allowed.none /\ hcall.behaviour[1].kind \in allowed.classes)
        => hcall.outcome = Raised(hcall.behaviour[1])

\* The declared-methods list holds each bound verb once, in the order of declaration.
EachVerbOnceInOrder(i) ==
    LET ms == routes[i].methods
        listed == created_routes[i].handler.methods
        at(verb) == {p \in 1..Len(listed) : listed[p] = Upper(verb)}
        first(verb) == CHOOSE k \in PositionsOf(i, verb) : \A j \in PositionsOf(i, verb) : k <= j
    IN /\ \A verb \in BoundVerbs(i) : Cardinality(at(verb)) = 1
       /\ \A u, v \in BoundVerbs(i) :
            first(u) < first(v) => \A p \in at(u), q \in at(v) : p < q

Resolved == resolved[1]
RealParameters == func.signature.parameters
NoParams == [all |-> <<>>, required |-> <<>>, optional |-> <<>>, logic |-> <<>>]

\* C11: a parameter is in `required` if and only if it has no default value and its
\* declared type is a validating type; so `required` is within `all` and apart from
\* `optional`, a function with no parameters yields four empty fields, and a parameter
\* a wrapping decorator passes, declared without a validating type, is in `all` and
\* `logic` and not in `required`.
C11_RequiredRule ==
    resolved # <<>>
        => /\ \A n \in ParamNames :
                n \in Range(Resolved.required)
                    <=> \E i \in 1..Len(RealParameters) :
                            /\ RealParameters[i].name = n
                            /\ ~RealParameters[i].has_default
                            /\ RealParameters[i].annotation \in ValidatingTypes
           /\ Range(Resolved.required) \subseteq Range(Resolved.all)
           /\ Range(Resolved.required) \cap Range(Resolved.optional) = {}
           /\ RealParameters = <<>> => Resolved = NoParams
           /\ \A i \in 1..func.layers :
                RealParameters[i].annotation \notin ValidatingTypes
                    => /\ RealParameters[i].name \in Range(Resolved.all)
                       /\ RealParameters[i].name \in Range(Resolved.logic)
                       /\ RealParameters[i].name \notin Range(Resolved.required)

\* decorated_func of test_routing.py, resolved.
C11_Witness ==
    /\ resolved # <<>> /\ func.layers = 1
    /\ RealParameters = <<Param("extra", "str", FALSE), Param("name", "Name", FALSE),
                          Param("is_alive", "IsAlive", TRUE)>>
    /\ Resolved.all = <<"extra", "name", "is_alive">>
    /\ Resolved.required = <<"name">>
    /\ Resolved.optional = <<"is_alive">>

(***************************************************************************)
(* Properties of binding.                                                  *)
(***************************************************************************)
\* C13: a binding is immutable once declared: whatever bindings are declared later, the
\* allowed-exception list and the title in effect for it are those it was declared with.
C13_BindingImmutable ==
    \A i \in 1..Len(declared) :
        /\ logic_attrs[declared[i].logic].doctor_allowed_exceptions
              = <<declared[i].allowed_exceptions>>
        /\ logic_attrs[declared[i].logic].doctor_title = <<declared[i].title>>

\* The signature and the ParameterSet a function carries are absent or the values
\* computed for that function, present once a binding of it is complete; and nothing
\* was computed by a binding of a function that carried the value when it began.
CachedAsComputed ==
    /\ \A f \in RoutingLogics :
        /\ logic_attrs[f].doctor_signature \in {<<>>, <<Signature(f)>>}
        /\ logic_attrs[f].doctor_params \in {<<>>, <<GetParamsFromFunc(Signature(f))>>}
    /\ \A i \in 1..Len(declared) :
        /\ logic_attrs[declared[i].logic].doctor_signature # <<>>
        /\ logic_attrs[declared[i].logic].doctor_params # <<>>
    /\ \A c \in computed : ~c.carried

\* C14: the ParameterSet and the signature cached on a logic function are write-once:
\* after any sequence of bindings of the function, two interleaved first bindings
\* included, they equal the values computed at its first binding, a value once cached
\* never changes, and a binding of a function that already carries them does not
\* compute them again.
C14_WriteOnce ==
    [][/\ CachedAsComputed'
       /\ \A f \in RoutingLogics :
            /\ logic_attrs[f].doctor_signature # <<>>
                 => logic_attrs'[f].doctor_signature = logic_attrs[f].doctor_signature
            /\ logic_attrs[f].doctor_params # <<>>
                 => logic_attrs'[f].doctor_params = logic_attrs[f].doctor_params
      ]_vars

\* Two first bindings of one function interleaved: both computed its ParameterSet.
C14_Witness ==
    /\ Len(declared) = 2 /\ declared[1].logic = declared[2].logic
    /\ \E c1, c2 \in computed :
         /\ c1.by # c2.by /\ c1.logic = c2.logic /\ c1.logic = declared[1].logic
         /\ c1.attribute = "_doctor_params" /\ c2.attribute = "_doctor_params"
    /\ logic_attrs[declared[1].logic].doctor_params
          = <<GetParamsFromFunc(Signature(declared[1].logic))>>

(***************************************************************************)
(* Properties of get_annotation.                                           *)
(***************************************************************************)
\* The first _schema_annotation along the chain from f: each layer is looked at, then
\* left through its im_func and the first cell of its closure; None when the chain ends
\* or comes back to a layer in `visited`.
RECURSIVE FirstAnnotation(_, _, _)
FirstAnnotation(h, f, visited) ==
    IF f.kind # "function" \/ f.ref \in visited THEN NoObject
    ELSE IF h[f.ref].has_annotation THEN SchemaAnnotation(f.ref)
    ELSE LET c == GetClosure(h, GetImFunc(h, f))
         IN IF c.kind = "function" THEN FirstAnnotation(h, c, visited \cup {f.ref})
            ELSE NoObject

\* C16: get_annotation always terminates: for every function and every chain of layers
\* reached through the first closure cell the call comes to its end, also when the
\* chain leads back to a layer it has already visited.
C16_Terminates == <>(apc = "done")

\* What get_annotation returns, when it returns, is the first _schema_annotation along
\* the chain, None when no layer carries one.
ReturnsFirstAnnotation ==
    (apc = "done" /\ annotation.type = "return")
        => annotation = ReturnedAnnotation(FirstAnnotation(heap, arg, {}))

====
